---- MODULE Spec2Model ----
(***************************************************************************)
(* A model of the apigen front end (src/src/api_parser.rs, src/src/lib.rs): *)
(* the enum value assignment and representation classifier, the cross-file  *)
(* linker (second_pass), the function/argument resolver, the doc-comment    *)
(* buffer of parse_string and the parallel driver parse_files.              *)
(*                                                                         *)
(* Each part of the program has its own specification over its own          *)
(* variables; the variables of the other parts stay at their idle value.    *)
(***************************************************************************)
EXTENDS Integers, Sequences, FiniteSets, TLC

VARIABLES
    overflow_checks, \* build profile: TRUE = arithmetic overflow panics (debug)
    enum_src,        \* the enum_type nodes of one enumdef's fieldlist, in order
    enum_entries,    \* Enum::entries (values only)
    enum_type,       \* Enum::enum_type
    enum_pc,         \* position inside the enumdef branch of parse_string
    chunks,          \* parse_string: the top-level pairs of the buffer, in order
    filename,        \* parse_string: the filename argument
    chunk_idx,       \* parse_string: the next chunk of the loop
    current_comments,\* parse_string: the pending doc comments
    api_def,         \* parse_string: the ApiDef being built
    parse_pc,        \* parse_string: "loop", "returned" or "panic"
    api_defs,        \* second_pass: the slice of ApiDefs
    link_runs,       \* second_pass: how many times it has run over api_defs
    files,           \* parse_files: the paths WalkDir yielded
    file_kind,       \* parse_files: what parse_file meets at each path
    task_pc,         \* parse_files: position of each par_iter task
    task_api_def,    \* parse_files: the api_def local of each task
    lock,            \* parse_files: the writer holding the RwLock, or "free"
    data,            \* parse_files: the Vec inside the RwLock
    pf_pc,           \* parse_files: "par_iter", "returned" or "panic"
    result,          \* parse_files: the list it returns
    var_node,        \* get_variable: the rule (a field, parameter or retexp node)
    resolved,        \* get_variable: the Variable it returns
    var_pc,          \* get_variable: "call" or "returned"
    prim_name,       \* is_primitve: the name argument
    prim_result,     \* is_primitve: what it returned
    prim_pc,         \* is_primitve: "call" or "returned"
    r_func,          \* renderers: the Function (its argument and return value)
    in_self_name,    \* renderers: the self_name / self_type argument
    in_c_prefix,     \* renderers: the c_prefix argument
    out,             \* renderers: what each of them returned
    called           \* renderers: the ones that have returned

enum_vars == <<overflow_checks, enum_src, enum_entries, enum_type, enum_pc>>
parse_vars == <<chunks, filename, chunk_idx, current_comments, api_def, parse_pc>>

link_vars == <<api_defs, link_runs>>
pf_vars == <<files, file_kind, task_pc, task_api_def, lock, data, pf_pc, result>>

var_vars == <<var_node, resolved, var_pc, prim_name, prim_result, prim_pc>>
render_vars == <<r_func, in_self_name, in_c_prefix, out, called>>
view_vars == <<var_vars, render_vars>>

vars == <<enum_vars, parse_vars, link_vars, pf_vars, view_vars>>

(***************************************************************************)
(* Bounds                                                                   *)
(***************************************************************************)
\* Width of the machine word standing for u64 (the program's is 64).
U64_BITS == 4
\* Longest list of enum entries.
MaxEntries == 4
\* Explicit enum literals run over 0..MaxLiteral, the powers of two and the
\* two largest word values.
MaxLiteral == 5

U64_MAX == 2^U64_BITS - 1

Range(s) == {s[i] : i \in DOMAIN s}

SeqsUpTo(S, n) == UNION {[1..k -> S] : k \in 0..n}

(***************************************************************************)
(* u64 arithmetic.  `x + 1` on a u64 panics when the build checks overflow  *)
(* and wraps otherwise.                                                     *)
(***************************************************************************)
Ok(v) == [panic |-> FALSE, val |-> v]
Panic == [panic |-> TRUE, val |-> 0]

WrappingInc(x) == (x + 1) % (U64_MAX + 1)

\* u64::is_power_of_two: exactly one bit set.
RECURSIVE CountOnes(_)
CountOnes(v) == IF v = 0 THEN 0 ELSE (v % 2) + CountOnes(v \div 2)

is_power_of_two(v) == CountOnes(v) = 1

(***************************************************************************)
(* Enum entries as written in the source: no value (None), a literal that   *)
(* parses as u64 (Num), or a literal that does not (Bad: a name, or a       *)
(* number out of range), on which get_enum's unwrap panics.                 *)
(***************************************************************************)
EnumLiterals ==
    (0..MaxLiteral) \cup {2^k : k \in 0..(U64_BITS - 1)} \cup {U64_MAX - 1, U64_MAX}

NoAssign == [kind |-> "none", lit |-> 0]
BadAssign == [kind |-> "bad", lit |-> 0]
NumAssign(v) == [kind |-> "num", lit |-> v]

EnumSrcEntries == {NoAssign, BadAssign} \cup {NumAssign(v) : v \in EnumLiterals}

\* get_enum: the value of a freshly parsed entry.
get_enum(s) ==
    CASE s.kind = "num" -> Ok(s.lit)
      [] s.kind = "none" -> Ok(U64_MAX)
      [] OTHER -> Panic

\* The patch-up loop of fill_field_list_enum, from entry i on.
\* AutoValueStepBroken is AutoValueStep with the counter left alone after an
\* explicit entry.
RECURSIVE AutoValueLoop(_, _, _, _)
AutoValueStepBroken(vals, i, counter, checks) ==
    IF vals[i] = U64_MAX
    THEN IF counter = U64_MAX /\ checks
         THEN Panic
         ELSE AutoValueLoop([vals EXCEPT ![i] = counter], i + 1, WrappingInc(counter), checks)
    ELSE AutoValueLoop(vals, i + 1, counter, checks)

AutoValueStep(vals, i, counter, checks) ==
    IF vals[i] = U64_MAX
    THEN IF counter = U64_MAX /\ checks
         THEN Panic
         ELSE AutoValueLoop([vals EXCEPT ![i] = counter], i + 1, WrappingInc(counter), checks)
    ELSE AutoValueLoop(vals, i + 1, vals[i] + 1, checks)

AutoValueLoop(vals, i, counter, checks) ==
    IF i > Len(vals) THEN Ok(vals) ELSE AutoValueStep(vals, i, counter, checks)

fill_field_list_enum(src, checks) ==
    IF \E i \in DOMAIN src : get_enum(src[i]).panic
    THEN Panic
    ELSE AutoValueLoop([i \in DOMAIN src |-> get_enum(src[i]).val], 1, 0, checks)

\* check_sequential: the loop from entry i on, `current` being the expected value.
RECURSIVE SequentialLoop(_, _, _, _)
SequentialLoop(vals, i, current, checks) ==
    IF i > Len(vals) THEN Ok(TRUE)
    ELSE IF current # vals[i] THEN Ok(FALSE)
    ELSE IF current = U64_MAX /\ checks THEN Panic
    ELSE SequentialLoop(vals, i + 1, WrappingInc(current), checks)

check_sequential(vals, checks) ==
    IF vals = <<>> THEN Ok(FALSE) ELSE SequentialLoop(vals, 1, vals[1], checks)

\* check_overlapping: the loop from entry i on, `values` the set seen so far.
RECURSIVE OverlapLoop(_, _, _)
OverlapLoop(vals, i, values) ==
    IF i > Len(vals) THEN FALSE
    ELSE IF vals[i] \in values THEN TRUE
    ELSE OverlapLoop(vals, i + 1, values \cup {vals[i]})

check_overlapping(vals) == OverlapLoop(vals, 1, {})

\* check_power_of_two: count / len > 0.5 in f32, which is exact for the list
\* lengths of this model (both numbers are below 2^24).
check_power_of_two(vals) ==
    IF vals = <<>> THEN FALSE
    ELSE LET power_of_two_count == Cardinality({i \in DOMAIN vals : is_power_of_two(vals[i])})
         IN  2 * power_of_two_count > Len(vals)

\* determine_enum_type.  DetermineBroken drops the overlap test of the
\* second branch.
DetermineBroken(vals, checks) ==
    LET sequential == check_sequential(vals, checks)
        overlapping == check_overlapping(vals)
        power_of_two == check_power_of_two(vals)
    IN  IF sequential.panic THEN Panic
        ELSE IF sequential.val /\ ~overlapping THEN Ok("Regular")
        ELSE IF power_of_two THEN Ok("Bitflags")
        ELSE Ok("Regular")

determine_enum_type(vals, checks) ==
    LET sequential == check_sequential(vals, checks)
        overlapping == check_overlapping(vals)
        power_of_two == check_power_of_two(vals)
    IN  IF sequential.panic THEN Panic
        ELSE IF sequential.val /\ ~overlapping THEN Ok("Regular")
        ELSE IF power_of_two \/ overlapping THEN Ok("Bitflags")
        ELSE Ok("Regular")

(***************************************************************************)
(* Parse-tree nodes (pest Pairs): a rule tag, the matched text and the      *)
(* child pairs in source order.  The text of a doc_comment is kept as a     *)
(* sequence of characters because the parser slices it.                     *)
(***************************************************************************)
Node(rule, text, inner) == [rule |-> rule, text |-> text, inner |-> inner]
Leaf(rule, text) == Node(rule, text, <<>>)

\* PRMITIVE_TYPES
PRMITIVE_TYPES ==
    {"void", "i8", "u8", "i16", "u16", "i32", "u32", "i64", "u64", "bool", "f32", "f64"}

\* is_primitve
is_primitve(name) == \E type_name \in PRMITIVE_TYPES : type_name = name

\* Option<ArrayType>
ArrayNone == [kind |-> "None", size |-> ""]
ArrayUnsized == [kind |-> "Unsized", size |-> ""]
SizedArray(size) == [kind |-> "SizedArray", size |-> size]

\* Variable::default()
VariableDefault ==
    [name |-> "", doc_comments |-> <<>>, def_file |-> "", vtype |-> "None",
     type_name |-> "", enum_type |-> "Regular", default_value |-> "",
     array |-> ArrayNone, optional |-> FALSE, type_modifier |-> "None"]

\* Function::default(); return_val is a list of at most one Variable.
FunctionDefault ==
    [doc_comments |-> <<>>, name |-> "", def_file |-> "", function_args |-> <<>>,
     return_val |-> <<>>, func_type |-> "Regular"]

\* get_default_value: the first name_or_num or string child, else empty.
RECURSIVE DefaultValueLoop(_, _)
DefaultValueLoop(inner, i) ==
    IF i > Len(inner) THEN ""
    ELSE IF inner[i].rule \in {"name_or_num", "string"} THEN inner[i].text
    ELSE DefaultValueLoop(inner, i + 1)

get_default_value(var, rule) ==
    [var EXCEPT !.default_value = DefaultValueLoop(rule.inner, 1)]

\* The scan of get_variable keeps three locals: vtype (a Rule), var, type_name.
\* The inner loop over the children of an array child:
RECURSIVE ArrayLoop(_, _, _)
ArrayLoop(inner, j, acc) ==
    IF j > Len(inner) THEN acc
    ELSE LET e == inner[j]
             next ==
                 CASE e.rule = "vtype" -> [acc EXCEPT !.type_name = e.text]
                   [] e.rule = "refexp" -> [acc EXCEPT !.vtype = "refexp"]
                   [] e.rule = "pointer_exp" -> [acc EXCEPT !.vtype = "pointer_exp"]
                   [] e.rule = "const_ptr_exp" -> [acc EXCEPT !.vtype = "const_ptr_exp"]
                   [] e.rule = "array_size" -> [acc EXCEPT !.var.array = SizedArray(e.text)]
                   [] OTHER -> acc
         IN  ArrayLoop(inner, j + 1, next)

RECURSIVE VariableLoop(_, _, _)
VariableLoop(inner, i, acc) ==
    IF i > Len(inner) THEN acc
    ELSE LET e == inner[i]
             next ==
                 CASE e.rule = "name" -> [acc EXCEPT !.var.name = e.text]
                   [] e.rule = "refexp" -> [acc EXCEPT !.vtype = "refexp"]
                   [] e.rule = "pointer_exp" -> [acc EXCEPT !.vtype = "pointer_exp"]
                   [] e.rule = "const_ptr_exp" -> [acc EXCEPT !.vtype = "const_ptr_exp"]
                   [] e.rule = "optional" -> [acc EXCEPT !.var.optional = TRUE]
                   [] e.rule = "vtype" -> [acc EXCEPT !.type_name = e.text]
                   [] e.rule = "default_val" ->
                          [acc EXCEPT !.var = get_default_value(acc.var, e)]
                   [] e.rule = "array" ->
                          ArrayLoop(e.inner, 1, [acc EXCEPT !.var.array = ArrayUnsized])
                   [] OTHER -> acc
         IN  VariableLoop(inner, i + 1, next)

\* The classification by type name at the end of get_variable.
\* VarTypeOfNoStr is VarTypeOf without the test for "String".
VarTypeOfNoStr(type_name) ==
    IF is_primitve(type_name) THEN "Primitive" ELSE "Regular"

VarTypeOf(type_name) ==
    IF type_name = "String" THEN "Str"
    ELSE IF is_primitve(type_name) THEN "Primitive"
    ELSE "Regular"

\* The match on vtype at the end of get_variable.
TypeModifierOf(vtype, old) ==
    CASE vtype = "pointer_exp" -> "MutPointer"
      [] vtype = "const_ptr_exp" -> "MutPointer"
      [] vtype = "refexp" -> "Reference"
      [] OTHER -> old

get_variable(rule, doc_comments) ==
    LET start == [vtype |-> "var",
                  var |-> [VariableDefault EXCEPT !.doc_comments = doc_comments],
                  type_name |-> ""]
        acc == VariableLoop(rule.inner, 1, start)
    IN  [acc.var EXCEPT !.type_modifier = TypeModifierOf(acc.vtype, @),
                        !.type_name = acc.type_name,
                        !.vtype = VarTypeOf(acc.type_name)]

\* The implicit receiver get_variable_list starts a non-static list with.
SelfVariable == [VariableDefault EXCEPT !.name = "self", !.vtype = "SelfType"]

\* get_variable_list
get_variable_list(rule, is_static_func) ==
    (IF ~is_static_func THEN <<SelfVariable>> ELSE <<>>)
        \o [i \in DOMAIN rule.inner |-> get_variable(rule.inner[i], <<>>)]

\* get_function: the scan keeps is_static_func and the function being built.
RECURSIVE FunctionLoop(_, _, _)
FunctionLoop(inner, i, acc) ==
    IF i > Len(inner) THEN acc
    ELSE LET e == inner[i]
             next ==
                 CASE e.rule = "name" -> [acc EXCEPT !.function.name = e.text]
                   [] e.rule = "manual_typ" -> [acc EXCEPT !.function.func_type = "Manual"]
                   [] e.rule = "varlist" ->
                          [acc EXCEPT !.function.function_args =
                                          get_variable_list(e, acc.is_static_func)]
                   [] e.rule = "retexp" ->
                          [acc EXCEPT !.function.return_val = <<get_variable(e, <<>>)>>]
                   [] e.rule = "static_typ" ->
                          [acc EXCEPT !.function.func_type = "Static",
                                      !.is_static_func = TRUE]
                   [] OTHER -> acc
         IN  FunctionLoop(inner, i + 1, next)

get_function(rule, doc_comments) ==
    FunctionLoop(rule.inner, 1,
                 [is_static_func |-> FALSE,
                  function |-> [FunctionDefault EXCEPT !.doc_comments = doc_comments]]).function

\* fill_callback: the last function child, resolved.
RECURSIVE CallbackLoop(_, _, _, _)
CallbackLoop(inner, i, doc_comments, func) ==
    IF i > Len(inner) THEN func
    ELSE CallbackLoop(inner, i + 1, doc_comments,
                      IF inner[i].rule = "function"
                      THEN get_function(inner[i], doc_comments)
                      ELSE func)

fill_callback(chunk, doc_comments) == CallbackLoop(chunk.inner, 1, doc_comments, FunctionDefault)

(***************************************************************************)
(* Struct, union and enum bodies                                            *)
(***************************************************************************)
\* text[4..] of a doc comment
StripMarker(text) == SubSeq(text, 5, Len(text))

\* fill_field_list: the scan keeps var_entries, func_entries and doc_comments.
RECURSIVE FieldListLoop(_, _, _)
FieldListLoop(inner, i, acc) ==
    IF i > Len(inner) THEN acc
    ELSE LET entry == inner[i]
             field == entry.inner[1]
             next ==
                 CASE entry.rule = "field" /\ field.rule = "var" ->
                          [acc EXCEPT !.var_entries =
                                          Append(@, get_variable(field, acc.doc_comments)),
                                      !.doc_comments = <<>>]
                   [] entry.rule = "field" /\ field.rule = "function" ->
                          [acc EXCEPT !.func_entries =
                                          Append(@, get_function(field, acc.doc_comments)),
                                      !.doc_comments = <<>>]
                   [] entry.rule = "doc_comment" /\ Len(entry.text) >= 4 ->
                          [acc EXCEPT !.doc_comments = Append(@, StripMarker(entry.text))]
                   [] OTHER -> acc
         IN  FieldListLoop(inner, i + 1, next)

fill_field_list(rule) ==
    FieldListLoop(rule.inner, 1,
                  [var_entries |-> <<>>, func_entries |-> <<>>, doc_comments |-> <<>>])

\* get_namelist_list
get_namelist_list(rule) == [i \in DOMAIN rule.inner |-> rule.inner[i].text]

\* get_attrbutes: the names of the last namelist child.
RECURSIVE AttributesLoop(_, _, _)
AttributesLoop(inner, i, attribs) ==
    IF i > Len(inner) THEN attribs
    ELSE AttributesLoop(inner, i + 1,
                        IF inner[i].rule = "namelist"
                        THEN get_namelist_list(inner[i])
                        ELSE attribs)

get_attrbutes(rule) == AttributesLoop(rule.inner, 1, <<>>)

\* Struct::default()
StructDefault ==
    [doc_comments |-> <<>>, name |-> "", def_file |-> "", variables |-> <<>>,
     functions |-> <<>>, attributes |-> <<>>, traits |-> <<>>, derives |-> <<>>]

\* fill_struct
RECURSIVE StructLoop(_, _, _)
StructLoop(inner, i, sdef) ==
    IF i > Len(inner) THEN sdef
    ELSE LET entry == inner[i]
             next ==
                 CASE entry.rule = "name" -> [sdef EXCEPT !.name = entry.text]
                   [] entry.rule = "attributes" ->
                          [sdef EXCEPT !.attributes = get_attrbutes(entry)]
                   [] entry.rule = "derive" -> [sdef EXCEPT !.derives = get_attrbutes(entry)]
                   [] entry.rule = "traits" -> [sdef EXCEPT !.traits = get_attrbutes(entry)]
                   [] entry.rule = "fieldlist" ->
                          LET lists == fill_field_list(entry)
                          IN  [sdef EXCEPT !.variables = lists.var_entries,
                                           !.functions = lists.func_entries]
                   [] OTHER -> sdef
         IN  StructLoop(inner, i + 1, next)

fill_struct(chunk, doc_comments, def_file) ==
    StructLoop(chunk.inner, 1,
               [StructDefault EXCEPT !.doc_comments = doc_comments, !.def_file = def_file])

\* str::parse::<u64> on the literals the model writes: decimal digits, and the
\* two largest values of the word.
DecimalText == <<"0", "1", "2", "3", "4", "5", "6", "7", "8">>

parse_u64(text) ==
    IF \E i \in DOMAIN DecimalText : DecimalText[i] = text /\ i - 1 <= U64_MAX
    THEN NumAssign((CHOOSE i \in DOMAIN DecimalText : DecimalText[i] = text) - 1)
    ELSE IF text = "18446744073709551615" THEN NumAssign(U64_MAX)
    ELSE IF text = "18446744073709551614" THEN NumAssign(U64_MAX - 1)
    ELSE BadAssign

\* get_enum_assign: the text of the first name_or_num child, else empty.
RECURSIVE EnumAssignLoop(_, _)
EnumAssignLoop(inner, i) ==
    IF i > Len(inner) THEN ""
    ELSE IF inner[i].rule = "name_or_num" THEN inner[i].text
    ELSE EnumAssignLoop(inner, i + 1)

get_enum_assign(rule) == EnumAssignLoop(rule.inner, 1)

\* The scan of get_enum over an enum_type pair: the name and the assignment.
RECURSIVE EnumEntryLoop(_, _, _)
EnumEntryLoop(inner, i, acc) ==
    IF i > Len(inner) THEN acc
    ELSE LET entry == inner[i]
             next ==
                 CASE entry.rule = "name" -> [acc EXCEPT !.name = entry.text]
                   [] entry.rule = "enum_assign" ->
                          [acc EXCEPT !.assign = parse_u64(get_enum_assign(entry))]
                   [] OTHER -> acc
         IN  EnumEntryLoop(inner, i + 1, next)

\* The first loop of fill_field_list_enum over the pairs of a fieldlist.
RECURSIVE EnumFieldLoop(_, _, _)
EnumFieldLoop(inner, i, acc) ==
    IF i > Len(inner) THEN acc
    ELSE LET entry == inner[i]
             field == entry.inner[1]
             next ==
                 CASE entry.rule = "field" /\ field.rule = "enum_type" ->
                          [acc EXCEPT !.entries =
                                          Append(@, EnumEntryLoop(field.inner, 1,
                                                        [name |-> "", assign |-> NoAssign,
                                                         doc_comments |-> acc.doc_comments])),
                                      !.doc_comments = <<>>]
                   [] entry.rule = "doc_comment" /\ Len(entry.text) >= 4 ->
                          [acc EXCEPT !.doc_comments = Append(@, StripMarker(entry.text))]
                   [] entry.rule = "doc_comment" -> [acc EXCEPT !.panic = TRUE]
                   [] OTHER -> acc
         IN  EnumFieldLoop(inner, i + 1, next)

\* fill_field_list_enum on a fieldlist pair: the entries with their values.
EnumEntriesOf(rule, checks) ==
    LET parsed == EnumFieldLoop(rule.inner, 1,
                                [entries |-> <<>>, doc_comments |-> <<>>, panic |-> FALSE])
        values == fill_field_list_enum([i \in DOMAIN parsed.entries |->
                                            parsed.entries[i].assign], checks)
    IN  IF parsed.panic \/ values.panic THEN Panic
        ELSE Ok([i \in DOMAIN parsed.entries |->
                     [doc_comments |-> parsed.entries[i].doc_comments,
                      name |-> parsed.entries[i].name,
                      value |-> values.val[i]]])

\* Enum::default()
EnumDefault ==
    [doc_comments |-> <<>>, name |-> "", def_file |-> "", enum_type |-> "Regular",
     flags_name |-> "", entries |-> <<>>]

EntryValues(entries) == [i \in DOMAIN entries |-> entries[i].value]

\* The enumdef branch of parse_string: the scan of the chunk's children, then
\* determine_enum_type.
RECURSIVE EnumDefLoop(_, _, _, _)
EnumDefLoop(inner, i, acc, checks) ==
    IF i > Len(inner) THEN acc
    ELSE LET entry == inner[i]
             next ==
                 CASE entry.rule = "name" -> [acc EXCEPT !.val.name = entry.text]
                   [] entry.rule = "fieldlist" ->
                          LET r == EnumEntriesOf(entry, checks)
                          IN  IF r.panic THEN [acc EXCEPT !.panic = TRUE]
                              ELSE [acc EXCEPT !.val.entries = r.val]
                   [] entry.rule = "enum_flags" ->
                          IF entry.inner = <<>> THEN [acc EXCEPT !.panic = TRUE]
                          ELSE [acc EXCEPT !.val.flags_name = entry.inner[1].text]
                   [] OTHER -> acc
         IN  EnumDefLoop(inner, i + 1, next, checks)

EnumDefOf(chunk, doc_comments, checks) ==
    LET acc == EnumDefLoop(chunk.inner, 1,
                           Ok([EnumDefault EXCEPT !.doc_comments = doc_comments]), checks)
        typ == determine_enum_type(EntryValues(acc.val.entries), checks)
    IN  IF acc.panic \/ typ.panic THEN Panic
        ELSE Ok([acc.val EXCEPT !.enum_type = typ.val])

(***************************************************************************)
(* parse_string: one step per top-level chunk                               *)
(***************************************************************************)
\* File paths, in ascending order of String::cmp, and Path::file_stem of each.
PathOrder == <<"api/app.def", "api/io.def", "api/ui.def", "ext/app.def", "ext/io.def">>

FileStem ==
    [p \in Range(PathOrder) |->
        CASE p \in {"api/app.def", "ext/app.def"} -> "app"
          [] p \in {"api/io.def", "ext/io.def"} -> "io"
          [] OTHER -> "ui"]

PathRank(p) == CHOOSE i \in DOMAIN PathOrder : PathOrder[i] = p

\* ApiDef::default()
ApiDefDefault ==
    [filename |-> "", base_filename |-> "", mods |-> <<>>, callbacks |-> <<>>,
     structs |-> <<>>, enums |-> <<>>, types |-> <<>>, unions |-> <<>>, consts |-> <<>>]

\* The locals of parse_string between two chunks.
ParseState(def, comments, panic) ==
    [api_def |-> def, current_comments |-> comments, panic |-> panic]

\* parse_string before the loop: the file name and its stem.
ParseStart(file) ==
    ParseState([ApiDefDefault EXCEPT !.filename = file,
                                     !.base_filename = FileStem[file]],
               <<>>, FALSE)

\* Rule::structdef
StructDefStep(st, chunk) ==
    [st EXCEPT !.api_def.structs =
                   Append(@, fill_struct(chunk, st.current_comments, st.api_def.base_filename)),
               !.current_comments = <<>>]

\* Rule::callbackdef
CallbackDefStep(st, chunk) ==
    [st EXCEPT !.api_def.callbacks =
                   Append(@, [fill_callback(chunk, st.current_comments)
                                 EXCEPT !.func_type = "Static"]),
               !.current_comments = <<>>]

\* Rule::moddef
RECURSIVE ModLoop(_, _, _)
ModLoop(inner, i, mods) ==
    IF i > Len(inner) THEN mods
    ELSE ModLoop(inner, i + 1,
                 IF inner[i].rule = "name" THEN Append(mods, inner[i].text) ELSE mods)

ModDefStep(st, chunk) ==
    [st EXCEPT !.api_def.mods = ModLoop(chunk.inner, 1, @)]

\* Type::default()
TypeDefault == [doc_comments |-> <<>>, var |-> VariableDefault]

\* Rule::type_value
RECURSIVE TypeLoop(_, _, _, _)
TypeLoop(inner, i, doc_comments, type_value) ==
    IF i > Len(inner) THEN type_value
    ELSE TypeLoop(inner, i + 1, doc_comments,
                  IF inner[i].rule = "var"
                  THEN [type_value EXCEPT !.var = get_variable(inner[i], doc_comments)]
                  ELSE type_value)

TypeValueStep(st, chunk) ==
    [st EXCEPT !.api_def.types =
                   Append(@, TypeLoop(chunk.inner, 1, st.current_comments, TypeDefault)),
               !.current_comments = <<>>]

\* Const::default()
ConstDefault == [doc_comments |-> <<>>, name |-> "", value |-> ""]

\* Rule::const_value
RECURSIVE ConstLoop(_, _, _)
ConstLoop(inner, i, const_value) ==
    IF i > Len(inner) THEN const_value
    ELSE LET entry == inner[i]
             next ==
                 CASE entry.rule = "name" -> [const_value EXCEPT !.name = entry.text]
                   [] entry.rule = "name_or_num" -> [const_value EXCEPT !.value = entry.text]
                   [] entry.rule = "raw_string" -> [const_value EXCEPT !.value = entry.text]
                   [] OTHER -> const_value
         IN  ConstLoop(inner, i + 1, next)

ConstValueStep(st, chunk) ==
    [st EXCEPT !.api_def.consts = Append(@, ConstLoop(chunk.inner, 1, ConstDefault))]

\* Rule::doc_comment: slicing a text shorter than the marker panics.
DocCommentStep(st, chunk) ==
    IF Len(chunk.text) < 4 THEN [st EXCEPT !.panic = TRUE]
    ELSE [st EXCEPT !.current_comments = Append(@, StripMarker(chunk.text))]

\* Rule::enumdef
EnumDefStep(st, chunk, checks) ==
    LET r == EnumDefOf(chunk, st.current_comments, checks)
    IN  IF r.panic THEN [st EXCEPT !.panic = TRUE, !.current_comments = <<>>]
        ELSE [st EXCEPT !.api_def.enums = Append(@, r.val), !.current_comments = <<>>]

\* Rule::uniondef.  UnionDefStepToStructs pushes the union onto structs.
UnionDefStepToStructs(st, chunk) ==
    [st EXCEPT !.api_def.structs =
                   Append(@, fill_struct(chunk, st.current_comments, st.api_def.base_filename)),
               !.current_comments = <<>>]

UnionDefStep(st, chunk) ==
    [st EXCEPT !.api_def.unions =
                   Append(@, fill_struct(chunk, st.current_comments, st.api_def.base_filename)),
               !.current_comments = <<>>]

ChunkRules ==
    {"structdef", "callbackdef", "moddef", "type_value", "const_value", "doc_comment",
     "enumdef", "uniondef"}

\* The body of the loop over the chunks.
ChunkStep(st, chunk, checks) ==
    CASE chunk.rule = "structdef" -> StructDefStep(st, chunk)
      [] chunk.rule = "callbackdef" -> CallbackDefStep(st, chunk)
      [] chunk.rule = "moddef" -> ModDefStep(st, chunk)
      [] chunk.rule = "type_value" -> TypeValueStep(st, chunk)
      [] chunk.rule = "const_value" -> ConstValueStep(st, chunk)
      [] chunk.rule = "doc_comment" -> DocCommentStep(st, chunk)
      [] chunk.rule = "enumdef" -> EnumDefStep(st, chunk, checks)
      [] chunk.rule = "uniondef" -> UnionDefStep(st, chunk)
      [] OTHER -> st

RECURSIVE ChunkLoop(_, _, _, _)
ChunkLoop(pairs, i, st, checks) ==
    IF i > Len(pairs) \/ st.panic THEN st
    ELSE ChunkLoop(pairs, i + 1, ChunkStep(st, pairs[i], checks), checks)

\* parse_string on the chunks of a syntactically valid buffer.
parse_string(pairs, file, checks) ==
    LET st == ChunkLoop(pairs, 1, ParseStart(file), checks)
    IN  IF st.panic THEN Panic ELSE Ok(st.api_def)

(***************************************************************************)
(* Idle values of the parts a specification does not run                    *)
(***************************************************************************)
EnumIdle ==
    /\ enum_src = <<>>
    /\ enum_entries = <<>>
    /\ enum_type = "Regular"
    /\ enum_pc = "idle"

ParseIdle ==
    /\ chunks = <<>>
    /\ filename = ""
    /\ chunk_idx = 1
    /\ current_comments = <<>>
    /\ api_def = ApiDefDefault
    /\ parse_pc = "idle"

LinkIdle ==
    /\ api_defs = <<>>
    /\ link_runs = 0

FilesIdle ==
    /\ files = {}
    /\ file_kind = <<>>
    /\ task_pc = <<>>
    /\ task_api_def = <<>>
    /\ lock = "free"
    /\ data = <<>>
    /\ pf_pc = "idle"
    /\ result = <<>>

VarIdle ==
    /\ var_node = <<>>
    /\ resolved = VariableDefault
    /\ var_pc = "idle"
    /\ prim_name = ""
    /\ prim_result = FALSE
    /\ prim_pc = "idle"

RenderIdle ==
    /\ r_func = FunctionDefault
    /\ in_self_name = ""
    /\ in_c_prefix = ""
    /\ out = <<>>
    /\ called = {}

(***************************************************************************)
(* The enumdef branch of parse_string                                       *)
(***************************************************************************)
EnumInit ==
    /\ overflow_checks \in BOOLEAN
    /\ enum_src \in SeqsUpTo(EnumSrcEntries, MaxEntries)
    /\ enum_entries = <<>>
    /\ enum_type = "Regular"
    /\ enum_pc = "fieldlist"
    /\ ParseIdle
    /\ LinkIdle
    /\ FilesIdle
    /\ VarIdle
    /\ RenderIdle

\* Rule::fieldlist => enum_def.entries = Self::fill_field_list_enum(entry)
FillFieldListEnum ==
    /\ enum_pc = "fieldlist"
    /\ LET r == fill_field_list_enum(enum_src, overflow_checks)
       IN  IF r.panic
           THEN /\ enum_pc' = "panic"
                /\ UNCHANGED enum_entries
           ELSE /\ enum_pc' = "classify"
                /\ enum_entries' = r.val
    /\ UNCHANGED <<overflow_checks, enum_src, enum_type, parse_vars, link_vars, pf_vars, view_vars>>

\* enum_def.enum_type = Self::determine_enum_type(&enum_def); push
DetermineEnumType ==
    /\ enum_pc = "classify"
    /\ LET r == determine_enum_type(enum_entries, overflow_checks)
       IN  IF r.panic
           THEN /\ enum_pc' = "panic"
                /\ UNCHANGED enum_type
           ELSE /\ enum_pc' = "done"
                /\ enum_type' = r.val
    /\ UNCHANGED <<overflow_checks, enum_src, enum_entries, parse_vars, link_vars, pf_vars, view_vars>>

EnumNext == FillFieldListEnum \/ DetermineEnumType

SpecEnum == EnumInit /\ [][EnumNext]_vars

(***************************************************************************)
(* parse_string as a state machine over the chunks of one buffer            *)
(***************************************************************************)
\* Longest buffer, in top-level chunks (the end-of-input pair not counted).
MaxChunks == 3
\* Most parameters a function declares.
MaxParams == 2

VarNode(name, type_name) == Node("var", "", <<Leaf("name", name), Leaf("vtype", type_name)>>)
FieldNode(child) == Node("field", "", <<child>>)
DocNode(text) == Leaf("doc_comment", text)
EOI == Leaf("EOI", "")

\* Doc comments: two of ordinary length and one that is only the marker.
DocTexts ==
    {<<"/", "/", "/", " ", "a">>, <<"/", "/", "/", " ", "b">>, <<"/", "/", "/">>}

\* struct Widget { /// f  width: u32, show(visible: bool) }
StructChunk ==
    Node("structdef", "", <<
        Leaf("name", "Widget"),
        Node("fieldlist", "", <<
            DocNode(<<"/", "/", "/", " ", "f">>),
            FieldNode(VarNode("width", "u32")),
            FieldNode(Node("function", "", <<
                Leaf("name", "show"),
                Node("varlist", "", <<VarNode("visible", "bool")>>)>>))>>)>>)

\* union Test { foo: u64, bar: u32 }
UnionChunk ==
    Node("uniondef", "", <<
        Leaf("name", "Test"),
        Node("fieldlist", "", <<
            FieldNode(VarNode("foo", "u64")),
            FieldNode(VarNode("bar", "u32"))>>)>>)

\* enum Color { Red, Green = 5, Blue }
EnumChunk ==
    Node("enumdef", "", <<
        Leaf("name", "Color"),
        Node("fieldlist", "", <<
            FieldNode(Node("enum_type", "", <<Leaf("name", "Red")>>)),
            FieldNode(Node("enum_type", "", <<
                Leaf("name", "Green"),
                Node("enum_assign", "", <<Leaf("name_or_num", "5")>>)>>)),
            FieldNode(Node("enum_type", "", <<Leaf("name", "Blue")>>))>>)>>)

\* callback OnClick(button: u32)
CallbackChunk ==
    Node("callbackdef", "", <<
        Node("function", "", <<
            Leaf("name", "OnClick"),
            Node("varlist", "", <<VarNode("button", "u32")>>)>>)>>)

\* type MetadataId: u64
TypeChunk == Node("type_value", "", <<VarNode("MetadataId", "u64")>>)

\* const FOOBAR = "test"
ConstChunk ==
    Node("const_value", "", <<Leaf("name", "FOOBAR"), Leaf("raw_string", "\"test\"")>>)

\* mod core
ModChunk == Node("moddef", "", <<Leaf("name", "core")>>)

DeclChunks == {StructChunk, UnionChunk, EnumChunk, CallbackChunk, TypeChunk, ConstChunk}

ParseChunks == DeclChunks \cup {ModChunk} \cup {DocNode(t) : t \in DocTexts}

Current == chunks[chunk_idx]

\* The effect of one pass through the loop body on the state.
Advance(st) ==
    /\ api_def' = st.api_def
    /\ current_comments' = st.current_comments
    /\ parse_pc' = IF st.panic THEN "panic" ELSE "loop"
    /\ chunk_idx' = chunk_idx + 1
    /\ UNCHANGED <<chunks, filename, overflow_checks>>
    /\ UNCHANGED <<enum_src, enum_entries, enum_type, enum_pc, link_vars, pf_vars, view_vars>>

InLoop(rule) ==
    /\ parse_pc = "loop"
    /\ chunk_idx <= Len(chunks)
    /\ Current.rule = rule

Locals == ParseState(api_def, current_comments, FALSE)

StructDef == InLoop("structdef") /\ Advance(StructDefStep(Locals, Current))

CallbackDef == InLoop("callbackdef") /\ Advance(CallbackDefStep(Locals, Current))

ModDef == InLoop("moddef") /\ Advance(ModDefStep(Locals, Current))

TypeValue == InLoop("type_value") /\ Advance(TypeValueStep(Locals, Current))

ConstValue == InLoop("const_value") /\ Advance(ConstValueStep(Locals, Current))

DocComment == InLoop("doc_comment") /\ Advance(DocCommentStep(Locals, Current))

EnumDef == InLoop("enumdef") /\ Advance(EnumDefStep(Locals, Current, overflow_checks))

UnionDef == InLoop("uniondef") /\ Advance(UnionDefStep(Locals, Current))

\* `_ => ()`: the end-of-input pair
OtherChunk ==
    /\ parse_pc = "loop"
    /\ chunk_idx <= Len(chunks)
    /\ Current.rule \notin ChunkRules
    /\ Advance(Locals)

\* Ok(api_def)
ReturnApiDef ==
    /\ parse_pc = "loop"
    /\ chunk_idx > Len(chunks)
    /\ parse_pc' = "returned"
    /\ UNCHANGED <<chunks, filename, chunk_idx, current_comments, api_def>>
    /\ UNCHANGED <<enum_vars, link_vars, pf_vars, view_vars>>

ParseInitOn(input) ==
    /\ overflow_checks \in BOOLEAN
    /\ EnumIdle
    /\ LinkIdle
    /\ FilesIdle
    /\ VarIdle
    /\ RenderIdle
    /\ filename \in {PathOrder[1], PathOrder[2]}
    /\ chunks \in {c \o <<EOI>> : c \in input}
    /\ chunk_idx = 1
    /\ current_comments = ParseStart(filename).current_comments
    /\ api_def = ParseStart(filename).api_def
    /\ parse_pc = "loop"

ParseInit == ParseInitOn(SeqsUpTo(ParseChunks, MaxChunks))

ParseNext ==
    \/ StructDef
    \/ CallbackDef
    \/ ModDef
    \/ TypeValue
    \/ ConstValue
    \/ DocComment
    \/ EnumDef
    \/ UnionDef
    \/ OtherChunk
    \/ ReturnApiDef

SpecParse == ParseInit /\ [][ParseNext]_vars

(***************************************************************************)
(* second_pass                                                              *)
(***************************************************************************)
\* Most files in the slice second_pass works on (and parse_files reads).
MaxFiles == 2
\* How often second_pass is run over the same slice.
MaxRuns == 2

\* The first loop over the enums of one ApiDef: enum_def_file_type, a map from
\* name to (def_file, enum_type).  EnumTableStepNoFlags leaves out the
\* registration of the flags name.
EnumTableStepNoFlags(e, table) ==
    (e.name :> [def_file |-> e.def_file, enum_type |-> e.enum_type]) @@ table

EnumTableStep(e, table) ==
    LET named == (e.name :> [def_file |-> e.def_file, enum_type |-> e.enum_type]) @@ table
    IN  IF e.flags_name # ""
        THEN (e.flags_name :> [def_file |-> e.def_file, enum_type |-> "Bitflags"]) @@ named
        ELSE named

RECURSIVE EnumTableOfFile(_, _, _)
EnumTableOfFile(enums, j, table) ==
    IF j > Len(enums) THEN table
    ELSE EnumTableOfFile(enums, j + 1, EnumTableStep(enums[j], table))

RECURSIVE EnumTableLoop(_, _, _)
EnumTableLoop(defs, i, table) ==
    IF i > Len(defs) THEN table
    ELSE EnumTableLoop(defs, i + 1, EnumTableOfFile(defs[i].enums, 1, table))

enum_def_file_type(defs) == EnumTableLoop(defs, 1, <<>>)

\* The body of the innermost loop.  UpgradeArgFlip turns an argument that is
\* already Enum back to Regular.
UpgradeArgFlip(arg, table) ==
    IF arg.type_name \in DOMAIN table
    THEN [arg EXCEPT !.vtype = IF @ = "Enum" THEN "Regular" ELSE "Enum"]
    ELSE arg

UpgradeArg(arg, table) ==
    IF arg.type_name \in DOMAIN table THEN [arg EXCEPT !.vtype = "Enum"] ELSE arg

UpgradeFunction(func, table) ==
    [func EXCEPT !.function_args = [a \in DOMAIN @ |-> UpgradeArg(@[a], table)]]

UpgradeStruct(sdef, table) ==
    [sdef EXCEPT !.functions = [f \in DOMAIN @ |-> UpgradeFunction(@[f], table)]]

\* second_pass: the tables are built from the whole slice, then the arguments
\* of the methods of every struct are patched.  (type_def_file and
\* empty_structs are built too and dropped at the end of the function.)
\* SecondPassFields patches the fields of the structs as well.
SecondPassFields(defs) ==
    LET table == enum_def_file_type(defs)
    IN  [d \in DOMAIN defs |->
            [defs[d] EXCEPT !.structs =
                [s \in DOMAIN @ |->
                    [UpgradeStruct(@[s], table) EXCEPT !.variables =
                        [v \in DOMAIN @ |-> UpgradeArg(@[v], table)]]]]]

second_pass(defs) ==
    LET table == enum_def_file_type(defs)
    IN  [d \in DOMAIN defs |->
            [defs[d] EXCEPT !.structs = [s \in DOMAIN @ |-> UpgradeStruct(@[s], table)]]]

\* The files second_pass is run on: each declares at most one enum and one
\* struct, union, callback, type alias and const that name types.
EnumNode(name, flags) ==
    Node("enumdef", "", <<
        Leaf("name", name),
        Node("fieldlist", "", <<
            FieldNode(Node("enum_type", "", <<Leaf("name", "First")>>)),
            FieldNode(Node("enum_type", "", <<Leaf("name", "Second")>>))>>)>>
        \o (IF flags = "" THEN <<>>
            ELSE <<Node("enum_flags", "", <<Leaf("name", flags)>>)>>))

LinkEnums ==
    <<<<>>, <<EnumNode("Color", "")>>, <<EnumNode("Color", "ColorFlags")>>,
      <<EnumNode("String", "")>>>>

ArgTypes == {"Color", "ColorFlags", "String", "Shape"}

\* struct Widget { tint: Color, paint(c: <arg>) -> Color }
\* union Either { v: Color, get(x: Color) }
\* callback OnPick(c: Color)     type Tint: Color     const FOOBAR = "test"
LinkSource(enums, arg) ==
    <<Node("structdef", "", <<
          Leaf("name", "Widget"),
          Node("fieldlist", "", <<
              FieldNode(VarNode("tint", "Color")),
              FieldNode(Node("function", "", <<
                  Leaf("name", "paint"),
                  Node("varlist", "", <<VarNode("c", arg)>>),
                  Node("retexp", "", <<Leaf("vtype", "Color")>>)>>))>>)>>),
      Node("uniondef", "", <<
          Leaf("name", "Either"),
          Node("fieldlist", "", <<
              FieldNode(VarNode("v", "Color")),
              FieldNode(Node("function", "", <<
                  Leaf("name", "get"),
                  Node("varlist", "", <<VarNode("x", "Color")>>)>>))>>)>>),
      Node("callbackdef", "", <<
          Node("function", "", <<
              Leaf("name", "OnPick"),
              Node("varlist", "", <<VarNode("c", "Color")>>)>>)>>),
      Node("type_value", "", <<VarNode("Tint", "Color")>>),
      ConstChunk>>
    \o enums \o <<EOI>>

\* What parse_string makes of each source under each file name.
LinkParsed ==
    {[file |-> i, enums |-> e, arg |-> a,
      api_def |-> parse_string(LinkSource(LinkEnums[e], a), PathOrder[i], FALSE).val] :
        i \in 1..MaxFiles, e \in DOMAIN LinkEnums, a \in ArgTypes}

LinkApiDef(i, e, a) ==
    (CHOOSE p \in LinkParsed : p.file = i /\ p.enums = e /\ p.arg = a).api_def

LinkSlices ==
    {[i \in DOMAIN c |-> LinkApiDef(i, c[i][1], c[i][2])] :
        c \in UNION {[1..n -> (DOMAIN LinkEnums) \X ArgTypes] : n \in 1..MaxFiles}}

LinkInit ==
    /\ overflow_checks = FALSE
    /\ EnumIdle
    /\ ParseIdle
    /\ FilesIdle
    /\ VarIdle
    /\ RenderIdle
    /\ api_defs \in LinkSlices
    /\ link_runs = 0

SecondPass ==
    /\ link_runs < MaxRuns
    /\ api_defs' = second_pass(api_defs)
    /\ link_runs' = link_runs + 1
    /\ UNCHANGED <<enum_vars, parse_vars, pf_vars, view_vars>>

LinkNext == SecondPass

SpecLink == LinkInit /\ [][LinkNext]_vars

(***************************************************************************)
(* parse_files: one rayon task per file, a Vec behind an RwLock, a sort      *)
(***************************************************************************)
\* What parse_file meets at a path: a file it parses, a file it cannot open or
\* read (Err, unwrapped by the task), or a malformed source (parse_string
\* panics).
FileKinds == {"ok", "io_error", "syntax_error"}

MaxPaths == 3

\* What a well-formed file holds: a type alias in one, a const in the next.
FileChunks(path) ==
    IF PathRank(path) % 2 = 1 THEN <<TypeChunk, EOI>> ELSE <<ConstChunk, EOI>>

\* What parse_string makes of each well-formed file, computed once.
FileParsed == [p \in Range(PathOrder) |-> parse_string(FileChunks(p), p, FALSE)]

\* The Result of parse_string as parse_file hands it on.
Parsed(r) == [ok |-> ~r.panic, panic |-> r.panic, val |-> r.val]

\* ApiParser::parse_file
parse_file(path, kind) ==
    CASE kind = "io_error" -> [ok |-> FALSE, panic |-> FALSE, val |-> ApiDefDefault]
      [] kind = "syntax_error" -> [ok |-> FALSE, panic |-> TRUE, val |-> ApiDefDefault]
      [] OTHER -> Parsed(FileParsed[path])

\* `ApiParser::parse_file(f.path()).unwrap()`: where the task goes next.
\* AfterParseSkip carries on without the file instead of panicking.
AfterParseSkip(r) == IF r.ok THEN "parsed" ELSE "done"

AfterParse(r) == IF r.ok THEN "parsed" ELSE "panicked"

\* data.sort_by(|a, b| a.filename.cmp(&b.filename)): a stable sort, here by
\* insertion.  NoSort leaves the list in the order of the pushes.
RECURSIVE InsertByFilename(_, _)
InsertByFilename(sorted, x) ==
    IF sorted = <<>> THEN <<x>>
    ELSE IF PathRank(sorted[Len(sorted)].filename) <= PathRank(x.filename)
         THEN Append(sorted, x)
         ELSE Append(InsertByFilename(SubSeq(sorted, 1, Len(sorted) - 1), x),
                     sorted[Len(sorted)])

RECURSIVE SortLoop(_, _, _)
SortLoop(list, i, sorted) ==
    IF i > Len(list) THEN sorted
    ELSE SortLoop(list, i + 1, InsertByFilename(sorted, list[i]))

NoSort(list) == list

sort_by_filename(list) == SortLoop(list, 1, <<>>)

FilesInit ==
    /\ overflow_checks = FALSE
    /\ EnumIdle
    /\ ParseIdle
    /\ LinkIdle
    /\ VarIdle
    /\ RenderIdle
    /\ files \in {f \in SUBSET Range(PathOrder) : Cardinality(f) \in 1..MaxPaths}
    /\ file_kind \in [files -> FileKinds]
    /\ task_pc = [f \in files |-> "start"]
    /\ task_api_def = [f \in files |-> ApiDefDefault]
    /\ lock = "free"
    /\ data = <<>>
    /\ pf_pc = "par_iter"
    /\ result = <<>>

\* let api_def = ApiParser::parse_file(f.path()).unwrap();
ParseFile(f) ==
    /\ pf_pc = "par_iter"
    /\ task_pc[f] = "start"
    /\ \E r \in {parse_file(f, file_kind[f])} :
           /\ task_pc' = [task_pc EXCEPT ![f] = AfterParse(r)]
           /\ task_api_def' = [task_api_def EXCEPT ![f] = r.val]
    /\ UNCHANGED <<files, file_kind, lock, data, pf_pc, result>>
    /\ UNCHANGED <<enum_vars, parse_vars, link_vars, view_vars>>

\* let mut data = api_defs.write().unwrap();
LockWrite(f) ==
    /\ pf_pc = "par_iter"
    /\ task_pc[f] = "parsed"
    /\ lock = "free"
    /\ lock' = f
    /\ task_pc' = [task_pc EXCEPT ![f] = "locked"]
    /\ UNCHANGED <<files, file_kind, task_api_def, data, pf_pc, result>>
    /\ UNCHANGED <<enum_vars, parse_vars, link_vars, view_vars>>

\* data.push(api_def); and the guard is dropped at the end of the block
Push(f) ==
    /\ pf_pc = "par_iter"
    /\ task_pc[f] = "locked"
    /\ lock = f
    /\ data' = Append(data, task_api_def[f])
    /\ lock' = "free"
    /\ task_pc' = [task_pc EXCEPT ![f] = "done"]
    /\ UNCHANGED <<files, file_kind, task_api_def, pf_pc, result>>
    /\ UNCHANGED <<enum_vars, parse_vars, link_vars, view_vars>>

\* for_each returns once every task is done: into_inner, sort_by, Ok(data)
ReturnData ==
    /\ pf_pc = "par_iter"
    /\ \A f \in files : task_pc[f] = "done"
    /\ result' = sort_by_filename(data)
    /\ pf_pc' = "returned"
    /\ UNCHANGED <<files, file_kind, task_pc, task_api_def, lock, data>>
    /\ UNCHANGED <<enum_vars, parse_vars, link_vars, view_vars>>

\* for_each resumes the panic of a task in the caller once no task is running;
\* tasks that have not started by then are dropped.
PropagatePanic ==
    /\ pf_pc = "par_iter"
    /\ \E f \in files : task_pc[f] = "panicked"
    /\ \A f \in files : task_pc[f] \in {"start", "panicked", "done"}
    /\ pf_pc' = "panic"
    /\ UNCHANGED <<files, file_kind, task_pc, task_api_def, lock, data, result>>
    /\ UNCHANGED <<enum_vars, parse_vars, link_vars, view_vars>>

FilesNext ==
    \/ \E f \in files : ParseFile(f)
    \/ \E f \in files : LockWrite(f)
    \/ \E f \in files : Push(f)
    \/ ReturnData
    \/ PropagatePanic

SpecFiles == FilesInit /\ [][FilesNext]_vars

(***************************************************************************)
(* Claims about the enum classifier and the value assignment                *)
(***************************************************************************)
\* The three predicates as the specification words them.
Sequential(vals) ==
    /\ vals # <<>>
    /\ \A i \in 2..Len(vals) : vals[i] = vals[i - 1] + 1

Overlapping(vals) ==
    \E i, j \in DOMAIN vals : i # j /\ vals[i] = vals[j]

PowerOfTwoMajority(vals) ==
    /\ vals # <<>>
    /\ 2 * Cardinality({i \in DOMAIN vals : \E k \in 0..(U64_BITS - 1) : vals[i] = 2^k})
         > Len(vals)

DecisionRule(vals) ==
    IF Sequential(vals) /\ ~Overlapping(vals) THEN "Regular"
    ELSE IF PowerOfTwoMajority(vals) \/ Overlapping(vals) THEN "Bitflags"
    ELSE "Regular"

C2_AutoValue ==
    enum_pc \in {"classify", "done"} =>
        /\ Len(enum_entries) = Len(enum_src)
        /\ \A i \in DOMAIN enum_src :
              enum_src[i].kind = "none" =>
                  enum_entries[i] = IF i = 1 THEN 0 ELSE WrappingInc(enum_entries[i - 1])
        /\ enum_src = <<NoAssign, NumAssign(5), NoAssign>> => enum_entries = <<0, 5, 6>>

C2_Witness ==
    /\ enum_pc = "done"
    /\ enum_src = <<NoAssign, NumAssign(5), NoAssign>>
    /\ enum_entries = <<0, 5, 6>>

(***************************************************************************)
(* Claims about the doc-comment buffer of parse_string                      *)
(***************************************************************************)
DeclRules ==
    {"structdef", "uniondef", "enumdef", "callbackdef", "type_value", "const_value"}

\* The last declaration chunk before chunk k, or 0.
PrevDecl(k) ==
    LET before == {j \in 1..(k - 1) : chunks[j].rule \in DeclRules}
    IN  IF before = {} THEN 0 ELSE CHOOSE j \in before : \A i \in before : i <= j

\* The doc-comment chunks between the previous declaration chunk and chunk k,
\* without their marker.
RECURSIVE DocsBetween(_, _)
DocsBetween(from, to) ==
    IF from > to THEN <<>>
    ELSE (IF chunks[from].rule = "doc_comment"
          THEN <<StripMarker(chunks[from].text)>>
          ELSE <<>>) \o DocsBetween(from + 1, to)

DocsPendingAt(k) == DocsBetween(PrevDecl(k) + 1, k - 1)

\* Chunk k is the n-th chunk of its kind.
KindIndex(k) == Cardinality({j \in 1..k : chunks[j].rule = chunks[k].rule})

\* The doc comments the ApiDef records for the declaration of chunk k.
DocsAttached(k) ==
    LET n == KindIndex(k)
        rule == chunks[k].rule
    IN  CASE rule = "structdef" -> api_def.structs[n].doc_comments
          [] rule = "uniondef" -> api_def.unions[n].doc_comments
          [] rule = "enumdef" -> api_def.enums[n].doc_comments
          [] rule = "callbackdef" -> api_def.callbacks[n].doc_comments
          [] rule = "type_value" -> api_def.types[n].var.doc_comments
          [] rule = "const_value" -> api_def.consts[n].doc_comments

\* C8: in the ApiDef parse_string returns, the doc comments of every
\* declaration (struct, union, enum, callback, type alias, const) are exactly
\* the doc-comment chunks that appeared since the previous declaration chunk.
C8_DocCommentsOfEveryDeclaration ==
    parse_pc = "returned" =>
        \A k \in DOMAIN chunks :
            chunks[k].rule \in DeclRules => DocsAttached(k) = DocsPendingAt(k)

(***************************************************************************)
(* The resolver on one function: a struct method, a union method or a       *)
(* callback, with every combination of markers, parameter list and return.  *)
(***************************************************************************)
MarkerLists ==
    {<<>>,
     <<Leaf("static_typ", "[static]")>>,
     <<Leaf("manual_typ", "[manual]")>>,
     <<Leaf("static_typ", "[static]"), Leaf("manual_typ", "[manual]")>>,
     <<Leaf("manual_typ", "[manual]"), Leaf("static_typ", "[static]")>>}

ParamNames == <<"a", "b", "c", "d">>
ParamTypes == {"u32", "Color"}

\* No varlist child at all, or a varlist of 0..MaxParams parameters.
VarLists ==
    {<<>>} \cup
    {<<Node("varlist", "", [i \in DOMAIN types |-> VarNode(ParamNames[i], types[i])])>> :
        types \in SeqsUpTo(ParamTypes, MaxParams)}

RetExps == {<<>>, <<Node("retexp", "", <<Leaf("vtype", "bool")>>)>>}

FunctionNodes ==
    {Node("function", "", m \o <<Leaf("name", "run")>> \o v \o r) :
        m \in MarkerLists, v \in VarLists, r \in RetExps}

MethodChunk(rule, name, func) ==
    Node(rule, "", <<Leaf("name", name), Node("fieldlist", "", <<FieldNode(func)>>)>>)

FuncChunks ==
    {MethodChunk("structdef", "Widget", f) : f \in FunctionNodes}
        \cup {MethodChunk("uniondef", "Test", f) : f \in FunctionNodes}
        \cup {Node("callbackdef", "", <<f>>) : f \in FunctionNodes}

FuncInit == ParseInitOn({<<c>> : c \in FuncChunks})

FuncNext ==
    \/ StructDef
    \/ UnionDef
    \/ CallbackDef
    \/ OtherChunk
    \/ ReturnApiDef

SpecFunc == FuncInit /\ [][FuncNext]_vars

(***************************************************************************)
(* Claims about the implicit receiver                                       *)
(***************************************************************************)
\* The function pair of the chunk and the Function built from it.
FuncNodeOf(chunk) ==
    IF chunk.rule = "callbackdef" THEN chunk.inner[1] ELSE chunk.inner[2].inner[1].inner[1]

BuiltFunction ==
    CASE chunks[1].rule = "callbackdef" -> api_def.callbacks[1]
      [] chunks[1].rule = "structdef" -> api_def.structs[1].functions[1]
      [] chunks[1].rule = "uniondef" -> api_def.unions[1].functions[1]

HasChild(node, rule) == \E i \in DOMAIN node.inner : node.inner[i].rule = rule

\* The names of the parameters the node declares, in source order.
DeclaredParams(node) ==
    IF HasChild(node, "varlist")
    THEN LET varlist == node.inner[CHOOSE i \in DOMAIN node.inner :
                                       node.inner[i].rule = "varlist"]
         IN  [i \in DOMAIN varlist.inner |-> varlist.inner[i].inner[1].text]
    ELSE <<>>

ArgNames(func) == [i \in DOMAIN func.function_args |-> func.function_args[i].name]

HasSelf(func) ==
    \E i \in DOMAIN func.function_args : func.function_args[i].vtype = "SelfType"

\* C6: every function whose node carries no static marker, with or without
\* declared parameters, has "self" (SelfType, empty type name) as the first
\* entry of its argument list, followed by the declared parameters in order.
C6_SelfFirstWhenNotStatic ==
    parse_pc = "returned" /\ ~HasChild(FuncNodeOf(chunks[1]), "static_typ") =>
        /\ BuiltFunction.function_args # <<>>
        /\ BuiltFunction.function_args[1].name = "self"
        /\ BuiltFunction.function_args[1].vtype = "SelfType"
        /\ BuiltFunction.function_args[1].type_name = ""
        /\ Tail(ArgNames(BuiltFunction)) = DeclaredParams(FuncNodeOf(chunks[1]))

\* C7: every Function of the built ApiDef whose func_type is Static (static
\* methods, and callbacks), and every function whose node carries both the
\* manual and the static marker, has exactly the declared parameters as its
\* arguments and no SelfType entry.
C7_NoSelfWhenStatic ==
    (/\ parse_pc = "returned"
     /\ \/ BuiltFunction.func_type = "Static"
        \/ /\ HasChild(FuncNodeOf(chunks[1]), "manual_typ")
           /\ HasChild(FuncNodeOf(chunks[1]), "static_typ")) =>
        /\ ~HasSelf(BuiltFunction)
        /\ ArgNames(BuiltFunction) = DeclaredParams(FuncNodeOf(chunks[1]))

(***************************************************************************)
(* Claims about second_pass                                                 *)
(***************************************************************************)
\* The names under which the enums of a slice are known: every enum's name and
\* every non-empty flags name, of every file.
KnownEnumNames(defs) ==
    UNION {UNION {{defs[d].enums[e].name} \cup
                  (IF defs[d].enums[e].flags_name # ""
                   THEN {defs[d].enums[e].flags_name}
                   ELSE {}) : e \in DOMAIN defs[d].enums} : d \in DOMAIN defs}

\* The positions of the arguments of the struct methods of a slice.
MethodArgs(defs) ==
    {<<d, s, f, a>> \in (DOMAIN defs) \X (1..1) \X (1..1) \X (1..MaxParams + 1) :
        /\ s \in DOMAIN defs[d].structs
        /\ f \in DOMAIN defs[d].structs[s].functions
        /\ a \in DOMAIN defs[d].structs[s].functions[f].function_args}

ArgAt(defs, p) == defs[p[1]].structs[p[2]].functions[p[3]].function_args[p[4]]

\* C3: a run of second_pass leaves every struct-method argument whose type
\* name is the name or the non-empty flags name of an enum of any file of the
\* slice with classification Enum, and every other struct-method argument with
\* the classification it had.
C3_ArgumentsOfKnownEnums ==
    [][/\ MethodArgs(api_defs') = MethodArgs(api_defs)
       /\ \A p \in MethodArgs(api_defs) :
             ArgAt(api_defs', p).vtype =
                 IF ArgAt(api_defs, p).type_name \in KnownEnumNames(api_defs)
                 THEN "Enum"
                 ELSE ArgAt(api_defs, p).vtype]_vars

\* The enum is declared in the second file, the argument in the first.
C3_Witness ==
    /\ link_runs = 1
    /\ Len(api_defs) = 2
    /\ api_defs[1].enums = <<>>
    /\ api_defs[2].enums # <<>>
    /\ ArgAt(api_defs, <<1, 1, 1, 2>>).type_name = "ColorFlags"
    /\ ArgAt(api_defs, <<1, 1, 1, 2>>).vtype = "Enum"
    /\ ArgAt(api_defs, <<1, 1, 1, 1>>).vtype = "SelfType"
    /\ ArgAt(api_defs, <<2, 1, 1, 2>>).type_name = "Shape"
    /\ ArgAt(api_defs, <<2, 1, 1, 2>>).vtype = "Regular"

\* C4: a second run of second_pass over the same slice changes nothing.
C4_Idempotent ==
    [][link_runs >= 1 => api_defs' = api_defs]_vars

C4_Witness ==
    /\ link_runs = 2
    /\ \E p \in MethodArgs(api_defs) :
          /\ ArgAt(api_defs, p).vtype = "Enum"
          /\ ArgAt(api_defs, p).type_name = "String"

\* A slice with the classification of every struct-method argument blanked.
WithoutArgTypes(defs) ==
    [d \in DOMAIN defs |->
        [defs[d] EXCEPT !.structs =
            [s \in DOMAIN @ |->
                [@[s] EXCEPT !.functions =
                    [f \in DOMAIN @ |->
                        [@[f] EXCEPT !.function_args =
                            [a \in DOMAIN @ |-> [@[a] EXCEPT !.vtype = "None"]]]]]]]]

\* C5: second_pass changes nothing but the classification of struct-method
\* arguments: fields, return values, callbacks, unions, enums, type aliases,
\* consts and the other attributes of the arguments stay as they were.
C5_OnlyArgumentTypesChange ==
    [][WithoutArgTypes(api_defs') = WithoutArgTypes(api_defs)]_vars

\* A field, a return value, a union-method argument, a callback argument and
\* a type alias all name a known enum and keep their classification.
C5_Witness ==
    /\ link_runs = 1
    /\ "Color" \in KnownEnumNames(api_defs)
    /\ ArgAt(api_defs, <<1, 1, 1, 2>>).vtype = "Enum"
    /\ api_defs[1].structs[1].variables[1].type_name = "Color"
    /\ api_defs[1].structs[1].variables[1].vtype = "Regular"
    /\ api_defs[1].structs[1].functions[1].return_val[1].vtype = "Regular"
    /\ api_defs[1].unions[1].functions[1].function_args[2].vtype = "Regular"
    /\ api_defs[1].callbacks[1].function_args[2].vtype = "Regular"
    /\ api_defs[1].types[1].var.vtype = "Regular"

(***************************************************************************)
(* Claims about parse_files                                                 *)
(***************************************************************************)
\* C9: under every interleaving of the tasks, the list parse_files returns
\* holds exactly one ApiDef per input file, in ascending order of file path.
C9_OnePerFileInPathOrder ==
    pf_pc = "returned" =>
        /\ Len(result) = Cardinality(files)
        /\ {result[i].filename : i \in DOMAIN result} = files
        /\ \A i, j \in DOMAIN result :
              i < j => PathRank(result[i].filename) < PathRank(result[j].filename)
        /\ \A i \in DOMAIN result :
              result[i] = parse_string(FileChunks(result[i].filename),
                                        result[i].filename, FALSE).val

\* The tasks pushed in another order than the one returned.
C9_Witness ==
    /\ pf_pc = "returned"
    /\ Len(data) >= 2
    /\ PathRank(data[1].filename) > PathRank(data[2].filename)
    /\ PathRank(result[1].filename) < PathRank(result[2].filename)

\* C10: when parse_file fails on any file, parse_files returns no list at all.
C10_NoPartialResult ==
    pf_pc = "returned" => \A f \in files : file_kind[f] = "ok"

\* One file failed after another had been parsed and pushed: the run panics.
C10_Witness ==
    /\ pf_pc = "panic"
    /\ result = <<>>
    /\ \E f \in files : file_kind[f] # "ok" /\ task_pc[f] = "panicked"
    /\ \E f \in files : file_kind[f] = "ok" /\ task_pc[f] = "done"

(***************************************************************************)
(* Claims about the "unassigned" sentinel of enum entries                   *)
(***************************************************************************)
\* C18: once auto-value assignment has run, no entry of the enum carries the
\* sentinel value u64::MAX, whatever the mix of explicit and unassigned
\* entries, an explicit maximum - 1 followed by an unassigned entry included.
C18_NoSentinelRemains ==
    enum_pc \in {"classify", "done"} =>
        \A i \in DOMAIN enum_entries : enum_entries[i] # U64_MAX

\* C20: an entry written with an explicit value v keeps exactly v after
\* auto-value assignment, for every u64 v, the maximum included.
C20_ExplicitValueKept ==
    enum_pc \in {"classify", "done"} =>
        \A i \in DOMAIN enum_src :
            enum_src[i].kind = "num" => enum_entries[i] = enum_src[i].lit

(***************************************************************************)
(* get_variable on one node, and is_primitve on one name                    *)
(***************************************************************************)
\* Type names a declaration can carry: the primitives, String, and names that
\* are neither.
TypeNames == PRMITIVE_TYPES \cup {"String", "string", "dummy", "Widget"}

\* The modifier child of a var node or of its array child, if any.
ModifierLists ==
    {<<>>} \cup {<<Leaf(m, "")>> : m \in {"pointer_exp", "const_ptr_exp", "refexp"}}

OptionalLists == {<<>>, <<Leaf("optional", "?")>>}

DefaultLists == {<<>>, <<Node("default_val", "", <<Leaf("name_or_num", "0")>>)>>}

ArraySizeLists == {<<>>, <<Node("array_size", "", <<Leaf("name_or_num", "4")>>)>>}

\* The type of a var node: a vtype child, or an array child around one.
TypeChildren ==
    {<<Leaf("vtype", t)>> : t \in TypeNames}
    \cup {<<Node("array", "", m \o <<Leaf("vtype", t)>> \o z)>> :
              m \in ModifierLists, t \in TypeNames, z \in ArraySizeLists}

VarNodes ==
    {Node("var", "", <<Leaf("name", "data")>> \o o \o m \o t \o d) :
        o \in OptionalLists, m \in ModifierLists, t \in TypeChildren, d \in DefaultLists}

VarInit ==
    /\ overflow_checks = FALSE
    /\ EnumIdle
    /\ ParseIdle
    /\ LinkIdle
    /\ FilesIdle
    /\ RenderIdle
    /\ var_node \in VarNodes
    /\ resolved = VariableDefault
    /\ var_pc = "call"
    /\ prim_name = ""
    /\ prim_result = FALSE
    /\ prim_pc = "call"

\* Self::get_variable(rule, doc_comments)
GetVariable ==
    /\ var_pc = "call"
    /\ resolved' = get_variable(var_node, <<>>)
    /\ var_pc' = "returned"
    /\ UNCHANGED <<var_node, prim_name, prim_result, prim_pc, render_vars>>
    /\ UNCHANGED <<enum_vars, parse_vars, link_vars, pf_vars>>

\* is_primitve(name), as test_primitve_ok and test_primitve_false call it
IsPrimitve ==
    /\ prim_pc = "call"
    /\ \E name \in TypeNames :
           /\ prim_name' = name
           /\ prim_result' = is_primitve(name)
    /\ prim_pc' = "returned"
    /\ UNCHANGED <<var_node, resolved, var_pc, render_vars>>
    /\ UNCHANGED <<enum_vars, parse_vars, link_vars, pf_vars>>

VarNext == GetVariable \/ IsPrimitve

SpecVar == VarInit /\ [][VarNext]_vars

(***************************************************************************)
(* Claims about the classification and the modifier of a variable           *)
(***************************************************************************)
\* The children of a var node, those of its array child in their place.
RECURSIVE Flatten(_, _)
Flatten(inner, i) ==
    IF i > Len(inner) THEN <<>>
    ELSE (IF inner[i].rule = "array" THEN inner[i].inner ELSE <<inner[i]>>)
             \o Flatten(inner, i + 1)

\* The text of the last child of one of the given rules, else `none`.
RECURSIVE LastOf(_, _, _, _)
LastOf(inner, i, rules, none) ==
    IF i = 0 THEN none
    ELSE IF inner[i].rule \in rules
         THEN [rule |-> inner[i].rule, text |-> inner[i].text]
         ELSE LastOf(inner, i - 1, rules, none)

RawTypeName(node) ==
    LET f == Flatten(node.inner, 1)
    IN  LastOf(f, Len(f), {"vtype"}, [rule |-> "", text |-> ""]).text

LastModifier(node) ==
    LET f == Flatten(node.inner, 1)
    IN  LastOf(f, Len(f), {"pointer_exp", "const_ptr_exp", "refexp"},
               [rule |-> "", text |-> ""]).rule

Classification(type_name) ==
    IF type_name = "String" THEN "Str"
    ELSE IF type_name \in {"void", "i8", "u8", "i16", "u16", "i32", "u32", "i64",
                            "u64", "bool", "f32", "f64"}
         THEN "Primitive"
         ELSE "Regular"

C12_ModifierOfLastChild ==
    var_pc = "returned" =>
        resolved.type_modifier =
            CASE LastModifier(var_node) = "pointer_exp" -> "MutPointer"
              [] LastModifier(var_node) = "const_ptr_exp" -> "ConstPointer"
              [] LastModifier(var_node) = "refexp" -> "Reference"
              [] OTHER -> "None"

\* C19: is_primitve returns true for "dummy", a name that is not in
\* PRMITIVE_TYPES, as test_primitve_false asserts.
C19_DummyIsPrimitive ==
    (prim_pc = "returned" /\ prim_name = "dummy") => prim_result = TRUE

(***************************************************************************)
(* The renderers of impl Function and impl Variable.  Text is a string;     *)
(* format! is concatenation.                                                *)
(***************************************************************************)
\* &tname[1..]
SliceFrom1(tname) == SubSeq(tname, 2, Len(tname))

\* str::starts_with(char)
starts_with(tname, ch) == Len(tname) >= 1 /\ SubSeq(tname, 1, 1) = ch

\* Variable::get_c_primitive_type
get_c_primitive_type(v) ==
    CASE v.type_name = "f32" -> "float"
      [] v.type_name = "bool" -> "bool"
      [] v.type_name = "f64" -> "double"
      [] v.type_name = "i32" -> "int"
      [] v.type_name = "void" -> "void"
      [] OTHER ->
          IF starts_with(v.type_name, "u")
          THEN "uint" \o SliceFrom1(v.type_name) \o "_t"
          ELSE "int" \o SliceFrom1(v.type_name) \o "_t"

\* Variable::get_c_variable.  CVariableConstMut is get_c_variable with the
\* const qualifier on mutable pointers too.
CVariableConstMut(v, self_type, prefix) ==
    (IF v.type_modifier \in {"ConstPointer", "Reference", "MutPointer"} THEN "const " ELSE "")
    \o (CASE v.vtype = "None" -> "void"
          [] v.vtype = "SelfType" -> "struct " \o prefix \o self_type
          [] v.vtype = "Regular" -> prefix \o v.type_name
          [] v.vtype = "Enum" -> prefix \o v.type_name
          [] v.vtype = "Str" -> "const char*"
          [] OTHER -> get_c_primitive_type(v))
    \o (IF v.type_modifier \in {"ConstPointer", "MutPointer", "Reference"} THEN "*" ELSE "")

get_c_variable(v, self_type, prefix) ==
    (IF v.type_modifier \in {"ConstPointer", "Reference"} THEN "const " ELSE "")
    \o (CASE v.vtype = "None" -> "void"
          [] v.vtype = "SelfType" -> "struct " \o prefix \o self_type
          [] v.vtype = "Regular" -> prefix \o v.type_name
          [] v.vtype = "Enum" -> prefix \o v.type_name
          [] v.vtype = "Str" -> "const char*"
          [] OTHER -> get_c_primitive_type(v))
    \o (IF v.type_modifier \in {"ConstPointer", "MutPointer", "Reference"} THEN "*" ELSE "")

\* Variable::get_primitive_type
get_primitive_type(v) == IF v.type_name = "void" THEN "c_void" ELSE v.type_name

\* Variable::get_ffi_type
get_ffi_type(v, self_type) ==
    LET output ==
            CASE v.vtype = "None" -> "c_void"
              [] v.vtype = "SelfType" -> "*mut " \o self_type
              [] v.vtype = "Regular" -> v.type_name
              [] v.vtype = "Enum" -> v.type_name
              [] v.vtype = "Str" -> "*const c_char"
              [] OTHER -> get_primitive_type(v)
    IN  CASE v.array.kind = "None" ->
                 (CASE v.type_modifier = "ConstPointer" -> "*const " \o output
                    [] v.type_modifier = "MutPointer" -> "*mut " \o output
                    [] v.type_modifier = "Reference" -> "*const " \o output
                    [] OTHER -> output)
          [] v.array.kind = "Unsized" ->
                 "*const " \o output \o ", " \o v.name \o "_size: u64"
          [] OTHER -> "[" \o output \o "; " \o v.array.size \o "]"

\* Variable::get_c_struct_variable
get_c_struct_variable(v, prefix) ==
    "    " \o get_c_variable(v, "", prefix)
    \o (CASE v.array.kind = "None" -> " " \o v.name \o ";"
          [] v.array.kind = "Unsized" ->
                 "* " \o v.name \o ";\n" \o "    uint64_t " \o v.name \o "_size;"
          [] OTHER -> " " \o v.name \o "[" \o v.array.size \o "];")

\* Function::get_c_separated_arguments: what one argument pushes.
CArgumentsOf(arg, self_type, prefix) ==
    IF arg.vtype = "Str" THEN <<"const char* " \o arg.name>>
    ELSE CASE arg.array.kind = "None" ->
                  IF arg.name # "va_args" /\ arg.type_name # "VA_ARGS"
                  THEN <<get_c_variable(arg, self_type, prefix) \o " " \o arg.name>>
                  ELSE <<"...">>
           [] arg.array.kind = "Unsized" ->
                  <<get_c_variable(arg, self_type, prefix) \o "* " \o arg.name,
                    "uint64_t " \o arg.name \o "_size">>
           [] OTHER ->
                  <<get_c_variable(arg, self_type, prefix) \o " " \o arg.name
                        \o "[" \o arg.array.size \o "]">>

RECURSIVE CArgumentsLoop(_, _, _, _, _)
CArgumentsLoop(function_args, i, args, self_type, prefix) ==
    IF i > Len(function_args) THEN args
    ELSE CArgumentsLoop(function_args, i + 1,
                        args \o CArgumentsOf(function_args[i], self_type, prefix),
                        self_type, prefix)

get_c_separated_arguments(func, self_type, prefix) ==
    CArgumentsLoop(func.function_args, 1, <<>>, self_type, prefix)

\* Function::get_c_arg_names
RECURSIVE CArgNamesLoop(_, _, _, _)
CArgNamesLoop(function_args, i, output, self_type) ==
    IF i > Len(function_args) THEN output
    ELSE LET arg == function_args[i]
             sep == IF i > 1 THEN ", " ELSE ""
             piece ==
                 IF arg.array.kind = "Unsized" THEN arg.name \o ", " \o arg.name \o "_size"
                 ELSE IF arg.array.kind = "SizedArray" THEN arg.name
                 ELSE IF arg.vtype = "SelfType" THEN self_type
                 ELSE arg.name
         IN  CArgNamesLoop(function_args, i + 1, output \o sep \o piece, self_type)

get_c_arg_names(func, self_type) == CArgNamesLoop(func.function_args, 1, "", self_type)

\* Function::get_c_return_value
get_c_return_value(func, prefix) ==
    IF func.return_val # <<>> THEN get_c_variable(func.return_val[1], "", prefix)
    ELSE "void"

(***************************************************************************)
(* The renderers applied to a function of one argument                      *)
(***************************************************************************)
\* Classification and type name as the resolver and the linker pair them.
TypedKinds ==
    {[vtype |-> "Str", type_name |-> "String"]}
    \cup {[vtype |-> "Primitive", type_name |-> t] : t \in PRMITIVE_TYPES}
    \cup {[vtype |-> "Regular", type_name |-> t] : t \in {"Widget", "VA_ARGS"}}
    \cup {[vtype |-> "Enum", type_name |-> "Color"]}

TypeModifiers == {"None", "ConstPointer", "MutPointer", "Reference"}

ArrayShapes == {ArrayNone, ArrayUnsized, SizedArray("MAX_LEN")}

RenderVariables ==
    {SelfVariable}
    \cup {[VariableDefault EXCEPT !.name = n, !.vtype = k.vtype, !.type_name = k.type_name,
                                  !.type_modifier = m, !.array = a] :
              n \in {"data", "va_args"}, k \in TypedKinds, m \in TypeModifiers,
              a \in ArrayShapes}

OutDefault ==
    [c_variable |-> "", c_struct_variable |-> "", ffi_type |-> "",
     c_separated_arguments |-> <<>>, c_arg_names |-> "", c_return_value |-> ""]

RenderInit ==
    /\ overflow_checks = FALSE
    /\ EnumIdle
    /\ ParseIdle
    /\ LinkIdle
    /\ FilesIdle
    /\ VarIdle
    /\ \E v \in RenderVariables, ret \in BOOLEAN :
           r_func = [FunctionDefault EXCEPT !.name = "run",
                                            !.function_args = <<v>>,
                                            !.return_val = IF ret THEN <<v>> ELSE <<>>]
    /\ in_self_name = "Widget"
    /\ in_c_prefix \in {"", "ui_"}
    /\ out = OutDefault
    /\ called = {}

\* The frame of one renderer call.
Call(renderer) ==
    /\ renderer \notin called
    /\ called' = called \cup {renderer}
    /\ UNCHANGED <<r_func, in_self_name, in_c_prefix, var_vars>>
    /\ UNCHANGED <<enum_vars, parse_vars, link_vars, pf_vars>>

\* arg.get_c_variable(self_type, c_prefix)
GetCVariable ==
    /\ Call("c_variable")
    /\ out' = [out EXCEPT !.c_variable =
                   get_c_variable(r_func.function_args[1], in_self_name, in_c_prefix)]

\* arg.get_c_struct_variable(c_prefix)
GetCStructVariable ==
    /\ Call("c_struct_variable")
    /\ out' = [out EXCEPT !.c_struct_variable =
                   get_c_struct_variable(r_func.function_args[1], in_c_prefix)]

\* arg.get_ffi_type(self_type)
GetFfiType ==
    /\ Call("ffi_type")
    /\ out' = [out EXCEPT !.ffi_type =
                   get_ffi_type(r_func.function_args[1], in_self_name)]

\* func.get_c_separated_arguments(self_name, c_prefix)
GetCSeparatedArguments ==
    /\ Call("c_separated_arguments")
    /\ out' = [out EXCEPT !.c_separated_arguments =
                   get_c_separated_arguments(r_func, in_self_name, in_c_prefix)]

\* func.get_c_arg_names(self_name)
GetCArgNames ==
    /\ Call("c_arg_names")
    /\ out' = [out EXCEPT !.c_arg_names = get_c_arg_names(r_func, in_self_name)]

\* func.get_c_return_value(c_prefix)
GetCReturnValue ==
    /\ Call("c_return_value")
    /\ out' = [out EXCEPT !.c_return_value = get_c_return_value(r_func, in_c_prefix)]

RenderNext ==
    \/ GetCVariable
    \/ GetCStructVariable
    \/ GetFfiType
    \/ GetCSeparatedArguments
    \/ GetCArgNames
    \/ GetCReturnValue

SpecRender == RenderInit /\ [][RenderNext]_vars

(***************************************************************************)
(* Claims about the renderers                                               *)
(***************************************************************************)
\* The argument the renderers are applied to.
Arg == r_func.function_args[1]

\* How many times the one-character text ch occurs in text.
RECURSIVE CountChar(_, _, _)
CountChar(text, ch, i) ==
    IF i > Len(text) THEN 0
    ELSE (IF SubSeq(text, i, i) = ch THEN 1 ELSE 0) + CountChar(text, ch, i + 1)

\* C13: the C-ABI renderer expands every Unsized array, Str included, into
\* exactly two artifacts: as a struct field a pointer field <name> and a
\* uint64_t field <name>_size, as a function argument a pointer parameter
\* <name> followed by a uint64_t parameter <name>_size; every other variable
\* yields exactly one artifact.
C13_UnsizedArrayTwoArtifacts ==
    /\ "c_struct_variable" \in called =>
           IF Arg.array.kind = "Unsized"
           THEN out.c_struct_variable =
                    "    " \o get_c_variable(Arg, "", in_c_prefix) \o "* " \o Arg.name
                        \o ";\n    uint64_t " \o Arg.name \o "_size;"
           ELSE CountChar(out.c_struct_variable, ";", 1) = 1
    /\ "c_separated_arguments" \in called =>
           IF Arg.array.kind = "Unsized"
           THEN out.c_separated_arguments =
                    <<get_c_variable(Arg, in_self_name, in_c_prefix) \o "* " \o Arg.name,
                      "uint64_t " \o Arg.name \o "_size">>
           ELSE Len(out.c_separated_arguments) = 1

\* C14: a non-array, non-Str argument renders as "..." exactly when its name
\* is "va_args" and its type name is "VA_ARGS"; with only one of the two it
\* renders as an ordinary typed parameter.
C14_VariadicOnlyWhenBoth ==
    ("c_separated_arguments" \in called /\ Arg.array.kind = "None" /\ Arg.vtype # "Str") =>
        IF Arg.name = "va_args" /\ Arg.type_name = "VA_ARGS"
        THEN out.c_separated_arguments = <<"...">>
        ELSE out.c_separated_arguments =
                 <<get_c_variable(Arg, in_self_name, in_c_prefix) \o " " \o Arg.name>>

\* The fixed C spelling of the primitive names.
CSpelling ==
    [t \in PRMITIVE_TYPES |->
        CASE t = "void" -> "void"
          [] t = "i8" -> "int8_t"
          [] t = "u8" -> "uint8_t"
          [] t = "i16" -> "int16_t"
          [] t = "u16" -> "uint16_t"
          [] t = "i32" -> "int"
          [] t = "u32" -> "uint32_t"
          [] t = "i64" -> "int64_t"
          [] t = "u64" -> "uint64_t"
          [] t = "bool" -> "bool"
          [] t = "f32" -> "float"
          [] OTHER -> "double"]

CBaseType(v) ==
    CASE v.vtype = "Str" -> "const char*"
      [] v.vtype = "SelfType" -> "struct " \o in_c_prefix \o in_self_name
      [] v.vtype \in {"Regular", "Enum"} -> in_c_prefix \o v.type_name
      [] OTHER -> CSpelling[v.type_name]

\* C15: get_c_variable renders the base type (Str as const char*, SelfType as
\* struct <prefix><OwningType>, Regular and Enum as <prefix><TypeName>,
\* Primitive by its fixed C spelling) with a leading "const " and a trailing
\* "*" for ConstPointer and Reference, only the trailing "*" for MutPointer and
\* neither for None; a function with no return value renders void.
C15_CVariable ==
    /\ "c_variable" \in called =>
           out.c_variable =
               (IF Arg.type_modifier \in {"ConstPointer", "Reference"} THEN "const " ELSE "")
               \o CBaseType(Arg)
               \o (IF Arg.type_modifier # "None" THEN "*" ELSE "")
    /\ ("c_return_value" \in called /\ r_func.return_val = <<>>) =>
           out.c_return_value = "void"

\* A mutable pointer to a prefixed type, in a function that returns nothing.
C15_Witness ==
    /\ {"c_variable", "c_return_value"} \subseteq called
    /\ r_func.return_val = <<>>
    /\ Arg.type_modifier = "MutPointer"
    /\ out.c_variable = "ui_Widget*"
    /\ out.c_return_value = "void"

FfiBaseType(v) ==
    CASE v.vtype = "SelfType" -> "*mut " \o in_self_name
      [] v.vtype = "Str" -> "*const c_char"
      [] v.vtype = "Primitive" /\ v.type_name = "void" -> "c_void"
      [] OTHER -> v.type_name

\* The declared element type, its pointer/reference modifier included.
FfiElementType(v) ==
    (CASE v.type_modifier = "MutPointer" -> "*mut "
       [] v.type_modifier \in {"ConstPointer", "Reference"} -> "*const "
       [] OTHER -> "") \o FfiBaseType(v)

\* C16: get_ffi_type renders a non-array variable as its base type with
\* "*mut " in front for MutPointer, "*const " for ConstPointer and Reference
\* and nothing for None; an Unsized array as "*const <element type>" plus the
\* companion "<name>_size: u64"; a SizedArray as "[<element type>; <size>]"
\* with the size text verbatim; the element type includes its modifier.
C16_FfiType ==
    "ffi_type" \in called =>
        out.ffi_type =
            CASE Arg.array.kind = "None" -> FfiElementType(Arg)
              [] Arg.array.kind = "Unsized" ->
                     "*const " \o FfiElementType(Arg) \o ", " \o Arg.name \o "_size: u64"
              [] OTHER -> "[" \o FfiElementType(Arg) \o "; " \o Arg.array.size \o "]"

\* Whether text ends with suffix.
EndsWith(text, suffix) ==
    /\ Len(text) >= Len(suffix)
    /\ SubSeq(text, Len(text) - Len(suffix) + 1, Len(text)) = suffix

\* C21: the call-site names of get_c_arg_names have as many comma-separated
\* entries as get_c_separated_arguments has parameter declarations, for
\* every classification (Str included) and array shape, and an Unsized
\* array contributes <name> and <name>_size to both, in that order.
C21_ArgNamesMatchArguments ==
    ({"c_separated_arguments", "c_arg_names"} \subseteq called) =>
        /\ CountChar(out.c_arg_names, ",", 1) + 1 = Len(out.c_separated_arguments)
        /\ Arg.array.kind = "Unsized" =>
               /\ out.c_arg_names = Arg.name \o ", " \o Arg.name \o "_size"
               /\ Len(out.c_separated_arguments) = 2
               /\ EndsWith(out.c_separated_arguments[1], " " \o Arg.name)
               /\ EndsWith(out.c_separated_arguments[2], " " \o Arg.name \o "_size")

(***************************************************************************)
(* parse_string on declarations of every kind, two of some                  *)
(***************************************************************************)
\* struct Button { label: String, size: u32 }
StructChunk2 ==
    Node("structdef", "", <<
        Leaf("name", "Button"),
        Node("fieldlist", "", <<
            FieldNode(VarNode("label", "String")),
            FieldNode(VarNode("size", "u32"))>>)>>)

\* union Value { bar: u32, foo: u64 }
UnionChunk2 ==
    Node("uniondef", "", <<
        Leaf("name", "Value"),
        Node("fieldlist", "", <<
            FieldNode(VarNode("bar", "u32")),
            FieldNode(VarNode("foo", "u64"))>>)>>)

\* const FOOBAR = 0x123
ConstChunk2 ==
    Node("const_value", "", <<Leaf("name", "FOOBAR"), Leaf("name_or_num", "0x123")>>)

BuildChunks ==
    DeclChunks \cup {StructChunk2, UnionChunk2, ConstChunk2}
        \cup {ModChunk, DocNode(<<"/", "/", "/", " ", "a">>)}

BuildInit == ParseInitOn(SeqsUpTo(BuildChunks, MaxChunks))

BuildNext ==
    \/ StructDef
    \/ UnionDef
    \/ EnumDef
    \/ CallbackDef
    \/ TypeValue
    \/ ConstValue
    \/ ModDef
    \/ DocComment
    \/ OtherChunk
    \/ ReturnApiDef

SpecBuild == BuildInit /\ [][BuildNext]_vars

(***************************************************************************)
(* Claims about the collections of an ApiDef                                *)
(***************************************************************************)
\* The children of a node that have the given rule, in order.
ChildrenOf(node, rule) ==
    LET IsRule(c) == c.rule = rule IN SelectSeq(node.inner, IsRule)

\* The top-level chunks of the given rule, in source order.
ChunksOf(rule) ==
    LET IsRule(c) == c.rule = rule IN SelectSeq(chunks, IsRule)

NameOf(node) == ChildrenOf(node, "name")[1].text

\* The name a declaration chunk declares.
DeclName(chunk) ==
    CASE chunk.rule = "callbackdef" -> NameOf(ChildrenOf(chunk, "function")[1])
      [] chunk.rule = "type_value" -> NameOf(ChildrenOf(chunk, "var")[1])
      [] OTHER -> NameOf(chunk)

DeclNames(rule) == [i \in DOMAIN ChunksOf(rule) |-> DeclName(ChunksOf(rule)[i])]

\* The name and type of each field of a struct or union chunk, in order.
DeclFields(chunk) ==
    LET fields == ChildrenOf(ChildrenOf(chunk, "fieldlist")[1], "field")
        IsVar(f) == f.inner[1].rule = "var"
        vars_ == SelectSeq(fields, IsVar)
    IN  [i \in DOMAIN vars_ |->
            <<NameOf(vars_[i].inner[1]), ChildrenOf(vars_[i].inner[1], "vtype")[1].text>>]

BuiltFields(sdef) ==
    [i \in DOMAIN sdef.variables |-> <<sdef.variables[i].name, sdef.variables[i].type_name>>]

\* The literal of a const chunk as written.
DeclLiteral(chunk) == chunk.inner[2].text

\* C17: parse_string produces exactly one entry per struct, union, enum,
\* callback, type alias and const chunk, each in the collection of its own
\* kind only, in source order, with the fields of each struct and union in
\* source order and the literal of each const verbatim.
C17_OneEntryPerDeclaration ==
    parse_pc = "returned" =>
        /\ [i \in DOMAIN api_def.structs |-> api_def.structs[i].name] = DeclNames("structdef")
        /\ [i \in DOMAIN api_def.unions |-> api_def.unions[i].name] = DeclNames("uniondef")
        /\ [i \in DOMAIN api_def.enums |-> api_def.enums[i].name] = DeclNames("enumdef")
        /\ [i \in DOMAIN api_def.callbacks |-> api_def.callbacks[i].name]
               = DeclNames("callbackdef")
        /\ [i \in DOMAIN api_def.types |-> api_def.types[i].var.name] = DeclNames("type_value")
        /\ [i \in DOMAIN api_def.consts |-> api_def.consts[i].name] = DeclNames("const_value")
        /\ \A i \in DOMAIN api_def.structs :
               BuiltFields(api_def.structs[i]) = DeclFields(ChunksOf("structdef")[i])
        /\ \A i \in DOMAIN api_def.unions :
               BuiltFields(api_def.unions[i]) = DeclFields(ChunksOf("uniondef")[i])
        /\ \A i \in DOMAIN api_def.consts :
               api_def.consts[i].value = DeclLiteral(ChunksOf("const_value")[i])

\* union Test, const FOOBAR = 0x123, union Value: two unions in source order,
\* no struct, the number kept as text.
C17_Witness ==
    /\ parse_pc = "returned"
    /\ chunks = <<UnionChunk, ConstChunk2, UnionChunk2, EOI>>
    /\ api_def.structs = <<>>
    /\ Len(api_def.unions) = 2
    /\ api_def.unions[1].name = "Test"
    /\ BuiltFields(api_def.unions[1]) = <<<<"foo", "u64">>, <<"bar", "u32">>>>
    /\ api_def.unions[2].name = "Value"
    /\ api_def.consts[1].value = "0x123"

====
